---------------------------- MODULE Spec2Model ----------------------------
(***************************************************************************)
(* TabWindow / TabItem reconciliation model of                              *)
(* src/js/components/WindowHeader.js (the tabWindow part, lines 202-1062).  *)
(*                                                                          *)
(* Immutable.Record values are TLA+ records; a JS null is the record Null.  *)
(* A JS object with optional keys (bookmark node, changeInfo) is a record   *)
(* whose DOMAIN holds exactly the keys that are present.                    *)
(***************************************************************************)
EXTENDS Integers, Sequences, FiniteSets, TLC

VARIABLES
  tabWindow,   \* the TabWindow the caller currently holds
  pc,          \* "idle": waiting for an event; "returned": an operation has returned
  op,          \* the operation in flight: its name and its arguments
  ret,         \* the TabWindow the operation returned
  raised,      \* TRUE iff the operation threw (safeOpenState / safeSavedState)
  steps,       \* number of operations applied so far
  titleCache,  \* the _title property of the object tabWindow, if the getter has set it
  mSaved,      \* mergeSavedOpenTabs harness: savedItems argument
  mOpen,       \* mergeSavedOpenTabs harness: openItems argument
  mOut,        \* mergeSavedOpenTabs harness: returned list
  mpc          \* mergeSavedOpenTabs harness: "off" / "input" / "merged"

vars == <<tabWindow, pc, op, ret, raised, steps, titleCache, mSaved, mOpen, mOut, mpc>>

---------------------------------------------------------------------------
(* Bounds of the exploration *)

MaxSteps == 2      \* operations applied after construction
MaxTabs == 2       \* live tabs in a window snapshot, children in a folder
MaxItems == 2      \* create* events stop once a window holds this many open items
MaxTitleSteps == 1 \* operations applied between reads of the title
MaxMerge == 2      \* length of each argument of the merge harness

---------------------------------------------------------------------------
(* JS null / undefined *)

Null == [isNull |-> TRUE]

Min(a, b) == IF a < b THEN a ELSE b
Max(a, b) == IF a > b THEN a ELSE b

(* _.get(obj, key, dflt) *)
Get(obj, key, dflt) == IF key \in DOMAIN obj THEN obj[key] ELSE dflt

(* Immutable.List: filter, map, findEntry (as an index, 0 = undefined) *)
FilterSeq(s, P(_)) == SelectSeq(s, P)

MapSeq(s, F(_)) == [i \in 1..Len(s) |-> F(s[i])]

\* 1-based position of the first element satisfying P, 0 when there is none
FindIndex(s, P(_)) ==
  IF \E i \in 1..Len(s) : P(s[i])
  THEN CHOOSE i \in 1..Len(s) : P(s[i]) /\ \A j \in 1..(i-1) : ~P(s[j])
  ELSE 0

\* Immutable's resolveBegin(index, size): 0-based, negative counts from the end
resolveBegin(index, size) ==
  IF index < 0 THEN Max(0, size + index) ELSE Min(size, index)

\* List.splice(index, removeNum, ...values) with a 0-based JS index
splice(list, index, removeNum, values) ==
  LET b == resolveBegin(index, Len(list))
  IN SubSeq(list, 1, b) \o values \o SubSeq(list, b + removeNum + 1, Len(list))

\* List.insert(index, value) is splice(index, 0, value)
insert(list, index, value) == splice(list, index, 0, <<value>>)

\* List.indexOf(target): 0-based, -1 when absent
indexOf(list, target) == FindIndex(list, LAMBDA x : x = target) - 1

---------------------------------------------------------------------------
(* Records of the data model: defaults of the Immutable.Record classes *)

SavedTabStateDefault ==
  [bookmarkId |-> "", bookmarkIndex |-> 0, title |-> "", url |-> ""]

OpenTabStateDefault ==
  [url |-> "", openTabId |-> -1, active |-> FALSE, openTabIndex |-> 0,
   favIconUrl |-> "", title |-> "", audible |-> FALSE, pinned |-> FALSE]

TabItemDefault ==
  [saved |-> FALSE, savedState |-> Null, open |-> FALSE, openState |-> Null]

TabWindowDefault ==
  [saved |-> FALSE, savedTitle |-> "", savedFolderId |-> "",
   open |-> FALSE, openWindowId |-> -1, windowType |-> "",
   width |-> 0, height |-> 0,
   tabItems |-> <<>>,
   snapshot |-> FALSE, chromeSessionId |-> Null, expanded |-> Null]

\* new R(obj): the record's own keys taken from obj, defaults elsewhere
RecordFrom(dflt, obj) ==
  [k \in DOMAIN dflt |-> IF k \in DOMAIN obj THEN obj[k] ELSE dflt[k]]

(* TabItem getters *)
ItemTitle(ti) ==
  IF ti.open /\ ti.openState # Null THEN ti.openState.title
  ELSE IF ti.savedState # Null THEN ti.savedState.title ELSE ""

ItemUrl(ti) ==
  IF ti.open /\ ti.openState # Null THEN ti.openState.url
  ELSE IF ti.savedState # Null THEN ti.savedState.url ELSE ""

\* safeSavedState / safeOpenState throw exactly when these are FALSE
HasSafeSavedState(ti) == ti.saved /\ ti.savedState # Null
HasSafeOpenState(ti) == ti.open /\ ti.openState # Null

---------------------------------------------------------------------------
(* Constructors of items *)

makeSavedTabState(bm) ==
  LET url == Get(bm, "url", "")
  IN [bookmarkId |-> bm.id, bookmarkIndex |-> bm.index,
      title |-> Get(bm, "title", url), url |-> url]

makeBookmarkedTabItem(bm) ==
  [TabItemDefault EXCEPT !.saved = TRUE, !.savedState = makeSavedTabState(bm)]

makeOpenTabState(tab) ==
  LET url == Get(tab, "url", "")
  IN [url |-> url, audible |-> tab.audible, favIconUrl |-> tab.favIconUrl,
      title |-> Get(tab, "title", url), openTabId |-> tab.id,
      active |-> tab.active, openTabIndex |-> tab.index, pinned |-> tab.pinned]

makeOpenTabItem(tab) ==
  [TabItemDefault EXCEPT !.open = TRUE, !.openState = makeOpenTabState(tab)]

resetSavedItem(ti) == [ti EXCEPT !.open = FALSE, !.openState = Null]

\* Faulty variant: the whole open-only part of the state is reset, active too.
cleanOpenState_dropActive(ti) ==
  IF ~ti.open THEN ti
  ELSE [ti EXCEPT !.openState.openTabId = OpenTabStateDefault.openTabId,
                  !.openState.active = OpenTabStateDefault.active]

cleanOpenState_keepId(ti) == ti

cleanOpenState(ti) ==
  IF ~ti.open THEN ti
  ELSE [ti EXCEPT !.openState.openTabId = OpenTabStateDefault.openTabId]

resetOpenItem(ti) == [ti EXCEPT !.saved = FALSE, !.savedState = Null]

---------------------------------------------------------------------------
(* Comparator and the stable List.sort used by the constructors *)

tabItemCompare(tiA, tiB) ==
  IF tiA.open # tiB.open THEN (IF tiA.open THEN -1 ELSE 1)
  ELSE IF tiA.open /\ tiA.openState # Null /\ tiB.openState # Null
       THEN tiA.openState.openTabIndex - tiB.openState.openTabIndex
  ELSE IF tiA.savedState # Null /\ tiB.savedState # Null
       THEN tiA.savedState.bookmarkIndex - tiB.savedState.bookmarkIndex
  ELSE 0

\* insert x behind the last element that does not compare greater than x
SortedInsert(sorted, x) ==
  LET keep == {i \in 1..Len(sorted) : tabItemCompare(sorted[i], x) <= 0}
      k == IF keep = {} THEN 0 ELSE CHOOSE i \in keep : \A j \in keep : j <= i
  IN SubSeq(sorted, 1, k) \o <<x>> \o SubSeq(sorted, k + 1, Len(sorted))

RECURSIVE SortItemsFrom(_, _)
SortItemsFrom(sorted, rest) ==
  IF rest = <<>> THEN sorted
  ELSE SortItemsFrom(SortedInsert(sorted, Head(rest)), Tail(rest))

SortItems(items) == SortItemsFrom(<<>>, items)

---------------------------------------------------------------------------
(* TabWindow accessors *)

\* Faulty variant: an open window is identified by its open window id.
TabWindowId_openFirst(w) ==
  IF w.open THEN "_open" \o ToString(w.openWindowId)
  ELSE "_saved" \o w.savedFolderId

\* get id (): string
TabWindowId(w) ==
  IF w.saved THEN "_saved" \o w.savedFolderId
  ELSE "_open" \o ToString(w.openWindowId)

\* findChromeTabId: 1-based position of the entry, 0 when undefined
findChromeTabId(w, tabId) ==
  FindIndex(w.tabItems,
            LAMBDA ti : ti.open /\ ti.openState # Null
                        /\ ti.openState.openTabId = tabId)

findChromeBookmarkId(w, bookmarkId) ==
  FindIndex(w.tabItems,
            LAMBDA ti : ti.saved /\ ti.savedState # Null
                        /\ ti.savedState.bookmarkId = bookmarkId)

setTabItems(w, nextItems) == [w EXCEPT !.tabItems = nextItems]

\* this._title === undefined
NoTitle == [set |-> FALSE]

computeTitle(w) ==
  IF w.saved THEN w.savedTitle
  ELSE LET activeTab == FindIndex(w.tabItems, LAMBDA t : t.open /\ t.openState.active)
           openTabItem == FindIndex(w.tabItems, LAMBDA t : t.open)
       IN IF activeTab # 0 THEN ItemTitle(w.tabItems[activeTab])
          ELSE IF openTabItem # 0 THEN ItemTitle(w.tabItems[openTabItem])
          ELSE ""

\* get title (): fills this._title on the first read and returns it
titleGet(w, cache) ==
  IF cache.set THEN cache ELSE [set |-> TRUE, value |-> computeTitle(w)]

\* Faulty variant: the cached title travels with the window through updates.
cacheAfter_kept(prev, next, cache) == cache

\* _title is an own property of one record object: Record.set returns the
\* same object when nothing changes and a new object, without it, otherwise
cacheAfter(prev, next, cache) == IF next = prev THEN cache ELSE NoTitle

\* delete this._title; return this.set('savedTitle', title)
updateSavedTitle(w, title) == [w EXCEPT !.savedTitle = title]

---------------------------------------------------------------------------
(* Window open / saved state *)

\* Faulty variant: without snapshot every item is kept, reset to saved-only.
removeOpenWindowState_noFilter(w, snapshot) ==
  LET updTabItems ==
        IF ~snapshot
        THEN MapSeq(w.tabItems, resetSavedItem)
        ELSE MapSeq(w.tabItems, cleanOpenState)
  IN [w EXCEPT !.open = TabWindowDefault.open,
               !.openWindowId = TabWindowDefault.openWindowId,
               !.windowType = TabWindowDefault.windowType,
               !.width = TabWindowDefault.width,
               !.height = TabWindowDefault.height,
               !.tabItems = updTabItems,
               !.snapshot = TRUE]

removeOpenWindowState(w, snapshot) ==
  LET updTabItems ==
        IF ~snapshot
        THEN MapSeq(FilterSeq(w.tabItems, LAMBDA ti : ti.saved), resetSavedItem)
        ELSE MapSeq(w.tabItems, cleanOpenState)
  IN [w EXCEPT !.open = TabWindowDefault.open,
               !.openWindowId = TabWindowDefault.openWindowId,
               !.windowType = TabWindowDefault.windowType,
               !.width = TabWindowDefault.width,
               !.height = TabWindowDefault.height,
               !.tabItems = updTabItems,
               !.snapshot = TRUE]

removeSavedWindowState(w) ==
  [w EXCEPT !.saved = TabWindowDefault.saved,
            !.savedFolderId = TabWindowDefault.savedFolderId,
            !.savedTitle = TabWindowDefault.savedTitle]

makeFolderTabWindow(bookmarkFolder) ==
  LET itemChildren == IF "children" \in DOMAIN bookmarkFolder
                      THEN FilterSeq(bookmarkFolder.children,
                                     LAMBDA node : "url" \in DOMAIN node)
                      ELSE <<>>
      tabItems == MapSeq(itemChildren, makeBookmarkedTabItem)
      fallbackTitle == IF "title" \notin DOMAIN bookmarkFolder /\ Len(tabItems) > 0
                       THEN ItemTitle(tabItems[1]) ELSE ""
  IN [TabWindowDefault EXCEPT
        !.saved = TRUE,
        !.savedTitle = Get(bookmarkFolder, "title", fallbackTitle),
        !.savedFolderId = bookmarkFolder.id,
        !.tabItems = SortItems(tabItems)]

makeChromeTabWindow(chromeWindow) ==
  LET chromeTabs == Get(chromeWindow, "tabs", <<>>)
      tabItems == MapSeq(chromeTabs, makeOpenTabItem)
  IN [TabWindowDefault EXCEPT
        !.open = TRUE,
        !.openWindowId = chromeWindow.id,
        !.windowType = chromeWindow.type,
        !.width = chromeWindow.width,
        !.height = chromeWindow.height,
        !.tabItems = SortItems(tabItems)]

---------------------------------------------------------------------------
(* Merge engine *)

\* Immutable.Map(savedItems.map(ti => [url, ti])).get(url, null): last one wins
savedUrlMapGet(savedItems, url) ==
  LET hits == {i \in 1..Len(savedItems) : savedItems[i].savedState.url = url}
  IN IF hits = {} THEN Null
     ELSE savedItems[CHOOSE i \in hits : \A j \in hits : j <= i]

\* Faulty variant: the closed saved items are put in front of the open items.
mergeSavedOpenTabs_closedFirst(savedItems, openItems) ==
  LET openUrlSet == {ItemUrl(openItems[i]) : i \in 1..Len(openItems)}
      mergeOne(openItem) ==
        LET savedItem == savedUrlMapGet(savedItems, openItem.openState.url)
        IN IF savedItem # Null
           THEN [openItem EXCEPT !.saved = TRUE, !.savedState = savedItem.savedState]
           ELSE openItem
  IN FilterSeq(savedItems, LAMBDA savedItem : savedItem.savedState.url \notin openUrlSet)
       \o MapSeq(openItems, mergeOne)

\* Faulty variant: every saved item is appended, also those whose URL is open.
mergeSavedOpenTabs_noFilter(savedItems, openItems) ==
  LET mergeOne(openItem) ==
        LET savedItem == savedUrlMapGet(savedItems, openItem.openState.url)
        IN IF savedItem # Null
           THEN [openItem EXCEPT !.saved = TRUE, !.savedState = savedItem.savedState]
           ELSE openItem
  IN MapSeq(openItems, mergeOne) \o savedItems

\* Faulty variant: the open items that match a bookmark are listed first.
mergeSavedOpenTabs_savedFirst(savedItems, openItems) ==
  LET openUrlSet == {ItemUrl(openItems[i]) : i \in 1..Len(openItems)}
      mergeOne(openItem) ==
        LET savedItem == savedUrlMapGet(savedItems, openItem.openState.url)
        IN IF savedItem # Null
           THEN [openItem EXCEPT !.saved = TRUE, !.savedState = savedItem.savedState]
           ELSE openItem
      merged == MapSeq(openItems, mergeOne)
  IN FilterSeq(merged, LAMBDA ti : ti.saved)
       \o FilterSeq(merged, LAMBDA ti : ~ti.saved)
       \o FilterSeq(savedItems,
                    LAMBDA savedItem : savedItem.savedState.url \notin openUrlSet)

mergeSavedOpenTabs(savedItems, openItems) ==
  LET openUrlSet == {ItemUrl(openItems[i]) : i \in 1..Len(openItems)}
      mergeOne(openItem) ==
        LET savedItem == IF openItem.openState # Null
                         THEN savedUrlMapGet(savedItems, openItem.openState.url)
                         ELSE Null
        IN IF savedItem # Null
           THEN [openItem EXCEPT !.saved = TRUE, !.savedState = savedItem.savedState]
           ELSE openItem
      openTabItems == MapSeq(openItems, mergeOne)
      closedTabItems ==
        FilterSeq(savedItems,
                  LAMBDA savedItem : savedItem.savedState # Null
                                     /\ savedItem.savedState.url \notin openUrlSet)
  IN openTabItems \o closedTabItems

\* Faulty variant: items that were open before are kept beside the fresh tabs.
mergeOpenTabs_keepStale(tabItems, openTabs) ==
  LET baseSavedItems == MapSeq(FilterSeq(tabItems, LAMBDA ti : ti.saved), resetSavedItem)
      staleOpenItems == MapSeq(FilterSeq(tabItems, LAMBDA ti : ti.open), resetOpenItem)
      chromeOpenTabItems == MapSeq(openTabs, makeOpenTabItem)
  IN mergeSavedOpenTabs(baseSavedItems, chromeOpenTabItems \o staleOpenItems)

mergeOpenTabs(tabItems, openTabs) ==
  LET baseSavedItems == MapSeq(FilterSeq(tabItems, LAMBDA ti : ti.saved), resetSavedItem)
      chromeOpenTabItems == MapSeq(openTabs, makeOpenTabItem)
  IN mergeSavedOpenTabs(baseSavedItems, chromeOpenTabItems)

\* optChromeTab / optBookmark are Null when the argument is not passed
\* Faulty variant: the new tab is appended, whatever its index.
mergeTabWindowTabItems_append(w, optChromeTab, optBookmark) ==
  LET tabItems == w.tabItems
      baseSavedItems == MapSeq(FilterSeq(tabItems, LAMBDA ti : ti.saved), resetSavedItem)
      baseOpenItems == MapSeq(FilterSeq(tabItems, LAMBDA ti : ti.open), resetOpenItem)
      updOpenItems == IF optChromeTab # Null
                      THEN Append(baseOpenItems, makeOpenTabItem(optChromeTab))
                      ELSE baseOpenItems
      updSavedItems == IF optBookmark # Null
                       THEN Append(baseSavedItems, makeBookmarkedTabItem(optBookmark))
                       ELSE baseSavedItems
  IN setTabItems(w, mergeSavedOpenTabs(updSavedItems, updOpenItems))

mergeTabWindowTabItems(w, optChromeTab, optBookmark) ==
  LET tabItems == w.tabItems
      baseSavedItems == MapSeq(FilterSeq(tabItems, LAMBDA ti : ti.saved), resetSavedItem)
      baseOpenItems == MapSeq(FilterSeq(tabItems, LAMBDA ti : ti.open), resetOpenItem)
      updOpenItems == IF optChromeTab # Null
                      THEN insert(baseOpenItems, optChromeTab.index,
                                  makeOpenTabItem(optChromeTab))
                      ELSE baseOpenItems
      updSavedItems == IF optBookmark # Null
                       THEN Append(baseSavedItems, makeBookmarkedTabItem(optBookmark))
                       ELSE baseSavedItems
  IN setTabItems(w, mergeSavedOpenTabs(updSavedItems, updOpenItems))

createTab(w, tab) == mergeTabWindowTabItems(w, tab, Null)

createSavedTab(w, tab, bmNode) == mergeTabWindowTabItems(w, tab, bmNode)

\* Faulty variant: the new bookmark goes in front of the saved items.
createBookmark_first(w, bm) ==
  LET baseSavedItems == MapSeq(FilterSeq(w.tabItems, LAMBDA ti : ti.saved), resetSavedItem)
      baseOpenItems == MapSeq(FilterSeq(w.tabItems, LAMBDA ti : ti.open), resetOpenItem)
  IN setTabItems(w, mergeSavedOpenTabs(<<makeBookmarkedTabItem(bm)>> \o baseSavedItems,
                                       baseOpenItems))

createBookmark(w, bm) == mergeTabWindowTabItems(w, Null, bm)

\* Faulty variant: reopening leaves the snapshot mark in place.
updateWindow_keepSnapshot(w, chromeWindow) ==
  LET mergedTabItems == mergeOpenTabs(w.tabItems, chromeWindow.tabs)
  IN [setTabItems(w, mergedTabItems) EXCEPT
        !.windowType = chromeWindow.type,
        !.open = TRUE,
        !.openWindowId = chromeWindow.id,
        !.chromeSessionId = TabWindowDefault.chromeSessionId]

updateWindow(w, chromeWindow) ==
  LET mergedTabItems == mergeOpenTabs(w.tabItems, chromeWindow.tabs)
  IN [setTabItems(w, mergedTabItems) EXCEPT
        !.windowType = chromeWindow.type,
        !.open = TRUE,
        !.openWindowId = chromeWindow.id,
        !.snapshot = TabWindowDefault.snapshot,
        !.chromeSessionId = TabWindowDefault.chromeSessionId]

---------------------------------------------------------------------------
(* Tab and bookmark events on the item list *)

\* Faulty variant: the closed tab's item is always removed, saved or not.
closeTab_alwaysRemove(w, tabId) ==
  LET entry == findChromeTabId(w, tabId)
  IN IF entry = 0 THEN w
     ELSE setTabItems(w, splice(w.tabItems, entry - 1, 1, <<>>))

\* Faulty variant: a missed lookup is taken as index -1 and spliced.
closeTab_noGuard(w, tabId) ==
  LET entry == findChromeTabId(w, tabId)
      index == entry - 1
  IN IF entry # 0 /\ w.tabItems[entry].saved
     THEN setTabItems(w, splice(w.tabItems, index, 1,
                                <<resetSavedItem(w.tabItems[entry])>>))
     ELSE setTabItems(w, splice(w.tabItems, index, 1, <<>>))

closeTab(w, tabId) ==
  LET entry == findChromeTabId(w, tabId)
  IN IF entry = 0 THEN w
     ELSE LET index == entry - 1
              tabItem == w.tabItems[entry]
              updItems == IF tabItem.saved
                          THEN splice(w.tabItems, index, 1, <<resetSavedItem(tabItem)>>)
                          ELSE splice(w.tabItems, index, 1, <<>>)
          IN setTabItems(w, updItems)

\* tabItem.safeOpenState throws for an item that is not open
saveTabRaises(w, tabItem, tabNode) == ~HasSafeOpenState(tabItem)

saveTab(w, tabItem, tabNode) ==
  LET entry == findChromeTabId(w, tabItem.openState.openTabId)
  IN IF entry = 0 THEN w
     ELSE LET index == entry - 1
              savedState == RecordFrom(SavedTabStateDefault, tabNode)
              updTabItem == [tabItem EXCEPT !.saved = TRUE, !.savedState = savedState]
          IN setTabItems(w, splice(w.tabItems, index, 1, <<updTabItem>>))

\* safeSavedState throws for the argument, or for a saved item without saved state
unsaveTabRaises(w, tabItem) ==
  \/ (\E i \in 1..Len(w.tabItems) : w.tabItems[i].saved) /\ ~HasSafeSavedState(tabItem)
  \/ \E i \in 1..Len(w.tabItems) :
       w.tabItems[i].saved /\ w.tabItems[i].savedState = Null

\* Faulty variant: the item is kept in place even when it is not open.
unsaveTab_keepClosed(w, tabItem) ==
  LET entry == FindIndex(w.tabItems,
                         LAMBDA ti : ti.saved /\ ti.savedState.bookmarkId
                                                  = tabItem.savedState.bookmarkId)
  IN IF entry = 0 THEN w
     ELSE setTabItems(w, splice(w.tabItems, entry - 1, 1,
                                <<resetOpenItem(w.tabItems[entry])>>))

\* Faulty variant: the item is located by the value of the argument.
unsaveTab_byValue(w, tabItem) ==
  LET entry == indexOf(w.tabItems, tabItem) + 1
  IN IF entry = 0 THEN w
     ELSE LET index == entry - 1
              sourceTabItem == w.tabItems[entry]
              updTabItem == resetOpenItem(sourceTabItem)
              updItems == IF updTabItem.open
                          THEN splice(w.tabItems, index, 1, <<updTabItem>>)
                          ELSE splice(w.tabItems, index, 1, <<>>)
          IN setTabItems(w, updItems)

unsaveTab(w, tabItem) ==
  LET entry == FindIndex(w.tabItems,
                         LAMBDA ti : ti.saved /\ ti.savedState.bookmarkId
                                                  = tabItem.savedState.bookmarkId)
  IN IF entry = 0 THEN w
     ELSE LET index == entry - 1
              sourceTabItem == w.tabItems[entry]
              updTabItem == resetOpenItem(sourceTabItem)
              updItems == IF updTabItem.open
                          THEN splice(w.tabItems, index, 1, <<updTabItem>>)
                          ELSE splice(w.tabItems, index, 1, <<>>)
          IN setTabItems(w, updItems)

\* ti.set('openState', ti.safeOpenState.remove('active')) for open items
tabItemRemoveActive(ti) ==
  IF ti.open THEN [ti EXCEPT !.openState.active = OpenTabStateDefault.active] ELSE ti

\* Faulty variant: the other open items keep their active flag.
setActiveTab_noClear(w, tabId) ==
  LET tabPos == findChromeTabId(w, tabId)
  IN IF tabPos = 0 THEN w
     ELSE setTabItems(w, splice(w.tabItems, tabPos - 1, 1,
                                <<[w.tabItems[tabPos] EXCEPT !.openState.active = TRUE]>>))

\* Faulty variant: splice without a remove count, the active item is inserted.
setActiveTab_insert(w, tabId) ==
  LET tabPos == findChromeTabId(w, tabId)
  IN IF tabPos = 0 THEN w
     ELSE LET nonActiveItems == MapSeq(w.tabItems, tabItemRemoveActive)
              updActiveTab == [w.tabItems[tabPos] EXCEPT !.openState.active = TRUE]
          IN setTabItems(w, splice(nonActiveItems, tabPos - 1, 0, <<updActiveTab>>))

setActiveTab(w, tabId) ==
  LET tabPos == findChromeTabId(w, tabId)
  IN IF tabPos = 0 THEN w
     ELSE LET index == tabPos - 1
              tabItem == w.tabItems[tabPos]
          IN \* tabItem.active: TabItem declares no such property, the read is undefined
             IF Get(tabItem, "active", FALSE) THEN w
             ELSE LET nonActiveItems == MapSeq(w.tabItems, tabItemRemoveActive)
                      updActiveTab == [tabItem EXCEPT !.openState.active = TRUE]
                  IN setTabItems(w, splice(nonActiveItems, index, 1, <<updActiveTab>>))

\* _.reduce(updKeys, (acc, k) => acc.set(k, changeInfo[k]), prevState)
ApplyChange(prevState, changeInfo) ==
  [k \in DOMAIN prevState |->
     IF k \in DOMAIN changeInfo THEN changeInfo[k] ELSE prevState[k]]

\* Faulty variant: a url change is patched in place, without the re-merge.
updateTabItem_noMerge(w, tabId, changeInfo) ==
  LET tabPos == findChromeTabId(w, tabId)
  IN IF tabPos = 0 THEN w
     ELSE LET prevTabItem == w.tabItems[tabPos]
              updKeys == (DOMAIN prevTabItem.openState) \cap (DOMAIN changeInfo)
          IN IF updKeys = {} THEN w
             ELSE setTabItems(w, splice(w.tabItems, tabPos - 1, 1,
                    <<[prevTabItem EXCEPT
                         !.openState = ApplyChange(prevTabItem.openState, changeInfo)]>>))

\* Faulty variant: every field of changeInfo is written into the open state.
updateTabItem_allKeys(w, tabId, changeInfo) ==
  LET tabPos == findChromeTabId(w, tabId)
  IN IF tabPos = 0 THEN w
     ELSE LET prevTabItem == w.tabItems[tabPos]
              prevOpenState == prevTabItem.openState
              updOpenState == [k \in (DOMAIN prevOpenState) \cup (DOMAIN changeInfo) |->
                                 IF k \in DOMAIN changeInfo THEN changeInfo[k]
                                 ELSE prevOpenState[k]]
              updWindow == setTabItems(w, splice(w.tabItems, tabPos - 1, 1,
                             <<[prevTabItem EXCEPT !.openState = updOpenState]>>))
          IN IF "url" \in DOMAIN changeInfo
             THEN mergeTabWindowTabItems(updWindow, Null, Null)
             ELSE updWindow

updateTabItem(w, tabId, changeInfo) ==
  LET tabPos == findChromeTabId(w, tabId)
  IN IF tabPos = 0 THEN w
     ELSE LET index == tabPos - 1
              prevTabItem == w.tabItems[tabPos]
              prevOpenState == prevTabItem.openState
              updKeys == (DOMAIN prevOpenState) \cap (DOMAIN changeInfo)
          IN IF prevOpenState = Null THEN w
             ELSE IF updKeys = {} THEN w
             ELSE LET updOpenState == ApplyChange(prevOpenState, changeInfo)
                      updTabItem == [prevTabItem EXCEPT !.openState = updOpenState]
                      updWindow == setTabItems(w, splice(w.tabItems, index, 1,
                                                         <<updTabItem>>))
                  IN IF "url" \in DOMAIN changeInfo
                     THEN mergeTabWindowTabItems(updWindow, Null, Null)
                     ELSE updWindow

updateTabBookmark(w, tabItem, changeInfo) ==
  LET index == indexOf(w.tabItems, tabItem)
  IN \* if (!index): true for index 0, false for -1
     IF index = 0 THEN w
     ELSE LET prevSavedState == tabItem.savedState
              updKeys == (DOMAIN prevSavedState) \cap (DOMAIN changeInfo)
          IN IF prevSavedState = Null THEN w
             ELSE IF updKeys = {} THEN w
             ELSE LET updSavedState == ApplyChange(prevSavedState, changeInfo)
                      updTabItem == [tabItem EXCEPT !.savedState = updSavedState]
                      updWindow == setTabItems(w, splice(w.tabItems, index, 1,
                                                         <<updTabItem>>))
                  IN IF "url" \in DOMAIN changeInfo
                     THEN mergeTabWindowTabItems(updWindow, Null, Null)
                     ELSE updWindow

---------------------------------------------------------------------------
(* Event payloads drawn by the environment (spec section 6 shapes) *)

Urls == {"a", "b"}

TabIds == 1..(MaxTabs + 1)

TabTitle(url) == "t-" \o url
BmTitle(url) == "bm-" \o url

\* live tab snapshot {url, id, index, active, pinned, audible, favIconUrl, title}
LiveTab(id, index, url, active) ==
  [id |-> id, index |-> index, url |-> url, title |-> TabTitle(url),
   active |-> active, pinned |-> FALSE, audible |-> FALSE, favIconUrl |-> ""]

\* live window snapshot: tab i sits at index i-1 and exactly one tab, the first
\* or the last, is active
LiveWindow(urls, activePos) ==
  [id |-> 7, type |-> "normal", width |-> 800, height |-> 600,
   tabs |-> [i \in 1..Len(urls) |-> LiveTab(i, i - 1, urls[i], i = activePos)]]

ChromeWindows ==
  UNION {{LiveWindow(urls, a) : urls \in [1..n -> Urls],
                                 a \in (IF n = 0 THEN {0} ELSE {1, n})} : n \in 0..MaxTabs}

BookmarkId(i) == "b" \o ToString(i)

BookmarkIds == {BookmarkId(i) : i \in 1..(MaxItems + 1)}

\* bookmark node {id, index, url?, title?}; a node without url is a sub-folder
BookmarkNode(i, kind) ==
  IF kind = "folder"
  THEN [id |-> BookmarkId(i), index |-> i - 1, title |-> "sub"]
  ELSE [id |-> BookmarkId(i), index |-> i - 1, url |-> kind, title |-> BmTitle(kind)]

\* children of a bookmark folder, in index order; the first may be a sub-folder
FolderChildren ==
  UNION {{[i \in 1..n |-> BookmarkNode(i, kinds[i])] :
            kinds \in {k \in [1..n -> Urls \cup {"folder"}] :
                         \A i \in 2..n : k[i] # "folder"}} : n \in 0..MaxTabs}

BookmarkFolders ==
  {[id |-> "f1", title |-> "W", children |-> c] : c \in FolderChildren}
    \cup {[id |-> "f1", children |-> c] : c \in {d \in FolderChildren : Len(d) <= 1}}
    \cup {[id |-> "f1", title |-> "W"]}

InitWindows ==
  {makeFolderTabWindow(f) : f \in BookmarkFolders}
    \cup {makeChromeTabWindow(cw) : cw \in ChromeWindows}
    \cup {makeChromeTabWindow([id |-> 7, type |-> "normal",
                               width |-> 800, height |-> 600])}

OpenItems(w) == FilterSeq(w.tabItems, LAMBDA ti : ti.open)
SavedItems(w) == FilterSeq(w.tabItems, LAMBDA ti : ti.saved)

OpenTabIds(w) == {w.tabItems[i].openState.openTabId :
                    i \in {j \in 1..Len(w.tabItems) : w.tabItems[j].open}}

SavedBookmarkIds(w) == {w.tabItems[i].savedState.bookmarkId :
                          i \in {j \in 1..Len(w.tabItems) : w.tabItems[j].saved}}

Least(S) == CHOOSE x \in S : \A y \in S : x <= y

FreshTabIds(w) == TabIds \ OpenTabIds(w)

\* tab ids an event may carry: those of the live tabs shown, or one that is unknown
EventTabIds(w) ==
  (OpenTabIds(w) \cap TabIds)
    \cup (IF FreshTabIds(w) = {} THEN {} ELSE {Least(FreshTabIds(w))})

FreshBookmarkNums(w) ==
  {i \in 1..(MaxItems + 1) : BookmarkId(i) \notin SavedBookmarkIds(w)}

\* changeInfo of chrome.tabs.onUpdated; status is no OpenTabState field
TabChangeInfos ==
  {[url |-> u] : u \in Urls}
    \cup {[title |-> "t-new", pinned |-> TRUE, status |-> "complete"],
          [status |-> "loading"]}

\* changeInfo of chrome.bookmarks.onChanged
BookmarkChangeInfos == {[url |-> "b"], [title |-> "bm-new"]}

NoOp == [name |-> "none"]

---------------------------------------------------------------------------
(* The event loop: one operation is called on the window held, it returns,  *)
(* and the caller keeps what it returned.                                    *)

Call(o, result, threw) ==
  /\ pc = "idle"
  /\ steps < MaxSteps
  /\ pc' = "returned"
  /\ op' = o
  /\ raised' = threw
  /\ ret' = IF threw THEN tabWindow ELSE result
  /\ steps' = steps + 1
  /\ titleCache' = IF o.name = "updateSavedTitle" THEN NoTitle ELSE titleCache
  /\ UNCHANGED <<tabWindow, mSaved, mOpen, mOut, mpc>>

Store ==
  /\ pc = "returned"
  /\ steps < MaxSteps
  /\ pc' = "idle"
  /\ tabWindow' = ret
  /\ op' = NoOp
  /\ raised' = FALSE
  /\ titleCache' = cacheAfter(tabWindow, ret, titleCache)
  /\ UNCHANGED <<ret, steps, mSaved, mOpen, mOut, mpc>>

\* a re-snapshot of the live window; its last tab is the active one
UpdateWindow ==
  \E cw \in {c \in ChromeWindows : c.tabs = <<>> \/ c.tabs[Len(c.tabs)].active} :
    Call([name |-> "updateWindow", chromeWindow |-> cw],
         updateWindow(tabWindow, cw), FALSE)

RemoveOpenWindowState ==
  \E snapshot \in BOOLEAN :
    Call([name |-> "removeOpenWindowState", snapshot |-> snapshot],
         removeOpenWindowState(tabWindow, snapshot), FALSE)

RemoveSavedWindowState ==
  Call([name |-> "removeSavedWindowState"], removeSavedWindowState(tabWindow), FALSE)

CreateTab ==
  /\ Len(OpenItems(tabWindow)) < MaxItems
  /\ FreshTabIds(tabWindow) # {}
  /\ \E url \in Urls, active \in BOOLEAN,
        index \in 0..(Len(OpenItems(tabWindow)) + 1) :
       LET tab == LiveTab(Least(FreshTabIds(tabWindow)), index, url, active)
       IN Call([name |-> "createTab", tab |-> tab], createTab(tabWindow, tab), FALSE)

CreateSavedTab ==
  /\ Len(OpenItems(tabWindow)) < MaxItems
  /\ FreshTabIds(tabWindow) # {}
  /\ FreshBookmarkNums(tabWindow) # {}
  /\ \E url \in Urls :
       LET tab == LiveTab(Least(FreshTabIds(tabWindow)),
                          Len(OpenItems(tabWindow)), url, FALSE)
           bm == [id |-> BookmarkId(Least(FreshBookmarkNums(tabWindow))),
                  index |-> Len(SavedItems(tabWindow)),
                  url |-> url, title |-> BmTitle(url)]
       IN Call([name |-> "createSavedTab", tab |-> tab, bmNode |-> bm],
               createSavedTab(tabWindow, tab, bm), FALSE)

CreateBookmark ==
  /\ Len(SavedItems(tabWindow)) < MaxItems
  /\ FreshBookmarkNums(tabWindow) # {}
  /\ \E url \in Urls :
       LET bm == [id |-> BookmarkId(Least(FreshBookmarkNums(tabWindow))),
                  index |-> Len(SavedItems(tabWindow)),
                  url |-> url, title |-> BmTitle(url)]
       IN Call([name |-> "createBookmark", bm |-> bm],
               createBookmark(tabWindow, bm), FALSE)

CloseTab ==
  \E tabId \in EventTabIds(tabWindow) :
    Call([name |-> "closeTab", tabId |-> tabId], closeTab(tabWindow, tabId), FALSE)

SetActiveTab ==
  \E tabId \in EventTabIds(tabWindow) :
    Call([name |-> "setActiveTab", tabId |-> tabId],
         setActiveTab(tabWindow, tabId), FALSE)

UpdateTabItem ==
  \E tabId \in EventTabIds(tabWindow), changeInfo \in TabChangeInfos :
    Call([name |-> "updateTabItem", tabId |-> tabId, changeInfo |-> changeInfo],
         updateTabItem(tabWindow, tabId, changeInfo), FALSE)

\* the items the caller may hold: those of the window (safeOpenState throws
\* for a closed one), or an open one that is gone
SaveTabArgs(w) ==
  {w.tabItems[i] : i \in 1..Len(w.tabItems)}
    \cup (IF FreshTabIds(w) = {} THEN {}
          ELSE {makeOpenTabItem(LiveTab(Least(FreshTabIds(w)), 0, "a", FALSE))})

SaveTab ==
  /\ FreshBookmarkNums(tabWindow) # {}
  /\ \E tabItem \in SaveTabArgs(tabWindow) :
       LET tabNode == [id |-> BookmarkId(Least(FreshBookmarkNums(tabWindow))),
                       index |-> Len(SavedItems(tabWindow)),
                       parentId |-> tabWindow.savedFolderId,
                       url |-> ItemUrl(tabItem), title |-> ItemTitle(tabItem)]
       IN Call([name |-> "saveTab", tabItem |-> tabItem, tabNode |-> tabNode],
               IF saveTabRaises(tabWindow, tabItem, tabNode) THEN tabWindow
               ELSE saveTab(tabWindow, tabItem, tabNode),
               saveTabRaises(tabWindow, tabItem, tabNode))

\* the saved items the caller may hold: those of the window, or one that is gone
SavedItemArgs(w) ==
  {w.tabItems[i] : i \in {j \in 1..Len(w.tabItems) : w.tabItems[j].saved}}
    \cup (IF FreshBookmarkNums(w) = {} THEN {}
          ELSE {makeBookmarkedTabItem([id |-> BookmarkId(Least(FreshBookmarkNums(w))),
                                       index |-> 0,
                                       url |-> "a", title |-> BmTitle("a")])})

\* the caller of unsaveTab may also hold an item as it was before its tab opened
UnsaveTabArgs(w) ==
  SavedItemArgs(w)
    \cup {resetSavedItem(w.tabItems[i]) :
            i \in {j \in 1..Len(w.tabItems) : w.tabItems[j].saved}}

UnsaveTab ==
  \E tabItem \in UnsaveTabArgs(tabWindow) :
    Call([name |-> "unsaveTab", tabItem |-> tabItem],
         IF unsaveTabRaises(tabWindow, tabItem) THEN tabWindow
         ELSE unsaveTab(tabWindow, tabItem),
         unsaveTabRaises(tabWindow, tabItem))

UpdateTabBookmark ==
  \E tabItem \in SavedItemArgs(tabWindow), changeInfo \in BookmarkChangeInfos :
    Call([name |-> "updateTabBookmark", tabItem |-> tabItem, changeInfo |-> changeInfo],
         updateTabBookmark(tabWindow, tabItem, changeInfo), FALSE)

Init ==
  /\ tabWindow \in InitWindows
  /\ pc = "idle"
  /\ op = NoOp
  /\ ret = tabWindow
  /\ raised = FALSE
  /\ steps = 0
  /\ titleCache = NoTitle
  /\ mSaved = <<>>
  /\ mOpen = <<>>
  /\ mOut = <<>>
  /\ mpc = "off"

Next ==
  \/ UpdateWindow
  \/ RemoveOpenWindowState
  \/ RemoveSavedWindowState
  \/ CreateTab
  \/ CreateSavedTab
  \/ CreateBookmark
  \/ CloseTab
  \/ SetActiveTab
  \/ UpdateTabItem
  \/ SaveTab
  \/ UnsaveTab
  \/ UpdateTabBookmark
  \/ Store

Spec == Init /\ [][Next]_vars

---------------------------------------------------------------------------
(* Tab events on a window built from a live snapshot.                       *)

InitTabEvents ==
  /\ Init
  /\ tabWindow \in {makeChromeTabWindow(cw) : cw \in ChromeWindows}

NextTabEvents ==
  \/ CreateTab
  \/ CloseTab
  \/ SetActiveTab
  \/ UpdateTabItem
  \/ UpdateWindow
  \/ Store

SpecTabEvents == InitTabEvents /\ [][NextTabEvents]_vars

---------------------------------------------------------------------------
(* A window that has been closed: every event that may follow               *)
(* removeOpenWindowState before the next updateWindow.                      *)

\* the windows that are open: built from a live snapshot, or built from a
\* bookmark folder and then opened on one tab
OpenedWindows ==
  {makeChromeTabWindow(cw) : cw \in ChromeWindows}
    \cup {updateWindow(makeFolderTabWindow(f), cw) :
             f \in {g \in BookmarkFolders : "title" \in DOMAIN g /\ "children" \in DOMAIN g},
             cw \in {c \in ChromeWindows : Len(c.tabs) = 1}}

ClosedWindows ==
  {removeOpenWindowState(w, snapshot) : w \in OpenedWindows, snapshot \in BOOLEAN}

InitClosed ==
  /\ tabWindow \in ClosedWindows
  /\ pc = "idle"
  /\ op = NoOp
  /\ ret = tabWindow
  /\ raised = FALSE
  /\ steps = 0
  /\ titleCache = NoTitle
  /\ mSaved = <<>>
  /\ mOpen = <<>>
  /\ mOut = <<>>
  /\ mpc = "off"

NextClosed ==
  \/ RemoveOpenWindowState
  \/ RemoveSavedWindowState
  \/ CreateTab
  \/ CreateSavedTab
  \/ CreateBookmark
  \/ CloseTab
  \/ SetActiveTab
  \/ UpdateTabItem
  \/ SaveTab
  \/ UnsaveTab
  \/ UpdateTabBookmark
  \/ Store

SpecClosed == InitClosed /\ [][NextClosed]_vars

---------------------------------------------------------------------------
(* Reads of the title getter and updateSavedTitle, interleaved with the     *)
(* operations.                                                              *)

SavedTitles == {"W", "W2"}

ReadTitle ==
  /\ pc = "idle"
  /\ ~titleCache.set
  /\ titleCache' = titleGet(tabWindow, titleCache)
  /\ UNCHANGED <<tabWindow, pc, op, ret, raised, steps, mSaved, mOpen, mOut, mpc>>

UpdateSavedTitle ==
  \E title \in SavedTitles :
    Call([name |-> "updateSavedTitle", title |-> title],
         updateSavedTitle(tabWindow, title), FALSE)

NextTitle ==
  \/ steps < MaxTitleSteps /\ Next
  \/ steps < MaxTitleSteps /\ UpdateSavedTitle
  \/ Store
  \/ ReadTitle

SpecTitle == Init /\ [][NextTitle]_vars

---------------------------------------------------------------------------
(* mergeSavedOpenTabs applied to arbitrary arguments of the shape its       *)
(* callers pass: saved-only items and open-only items.                      *)

MergeUrls == {"a", "b", "c"}

MergeSavedArgs ==
  UNION {{[i \in 1..n |->
             makeBookmarkedTabItem([id |-> BookmarkId(i), index |-> i - 1,
                                    url |-> urls[i], title |-> BmTitle(urls[i])])] :
            urls \in [1..n -> MergeUrls]} : n \in 0..MaxMerge}

MergeOpenArgs ==
  UNION {{[i \in 1..n |-> makeOpenTabItem(LiveTab(i, i - 1, urls[i], i = 1))] :
            urls \in [1..n -> MergeUrls]} : n \in 0..MaxMerge}

InitMerge ==
  /\ mSaved \in MergeSavedArgs
  /\ mOpen \in MergeOpenArgs
  /\ mOut = <<>>
  /\ mpc = "input"
  /\ tabWindow = TabWindowDefault
  /\ pc = "idle"
  /\ op = NoOp
  /\ ret = TabWindowDefault
  /\ raised = FALSE
  /\ steps = 0
  /\ titleCache = NoTitle

MergeSavedOpenTabs ==
  /\ mpc = "input"
  /\ mpc' = "merged"
  /\ mOut' = mergeSavedOpenTabs(mSaved, mOpen)
  /\ UNCHANGED <<mSaved, mOpen, tabWindow, pc, op, ret, raised, steps, titleCache>>

NextMerge == MergeSavedOpenTabs

SpecMerge == InitMerge /\ [][NextMerge]_vars

---------------------------------------------------------------------------
(* Properties of the merge engine, checked under SpecMerge *)

SeqUrls(items) == {ItemUrl(items[i]) : i \in 1..Len(items)}

DistinctUrls(items) ==
  \A i, j \in 1..Len(items) : i # j => ItemUrl(items[i]) # ItemUrl(items[j])

\* positions of the items of a list whose URL is u
WithUrl(items, u) == {i \in 1..Len(items) : ItemUrl(items[i]) = u}

\* C1: with URLs pairwise distinct in S and in O, mergeSavedOpenTabs(S, O) is
\* the items of O in order, each with open=true and its own openState, and with
\* saved=true and the matching savedState exactly when a saved item has its
\* URL, followed by the items of S whose URL is not open, in the order of S.
C1_MergeIdentity ==
  (mpc = "merged" /\ DistinctUrls(mSaved) /\ DistinctUrls(mOpen)) =>
    LET closed == FilterSeq(mSaved, LAMBDA ti : ItemUrl(ti) \notin SeqUrls(mOpen))
    IN /\ Len(mOut) = Len(mOpen)
                      + Cardinality({i \in 1..Len(mSaved) :
                                       ItemUrl(mSaved[i]) \notin SeqUrls(mOpen)})
       /\ \A i \in 1..Len(mOpen) :
            /\ mOut[i].open
            /\ mOut[i].openState = mOpen[i].openState
            /\ IF ItemUrl(mOpen[i]) \in SeqUrls(mSaved)
               THEN /\ mOut[i].saved
                    /\ \E j \in 1..Len(mSaved) :
                         /\ ItemUrl(mSaved[j]) = ItemUrl(mOpen[i])
                         /\ mOut[i].savedState = mSaved[j].savedState
               ELSE ~mOut[i].saved /\ mOut[i].savedState = Null
       /\ SubSeq(mOut, Len(mOpen) + 1, Len(mOut)) = closed

\* the scenario of the specification: saved [a, b], open [b, c]
C1_Witness ==
  /\ mpc = "merged"
  /\ Len(mSaved) = 2 /\ ItemUrl(mSaved[1]) = "a" /\ ItemUrl(mSaved[2]) = "b"
  /\ Len(mOpen) = 2 /\ ItemUrl(mOpen[1]) = "b" /\ ItemUrl(mOpen[2]) = "c"
  /\ Len(mOut) = 3
  /\ mOut[1].open /\ mOut[1].saved /\ ItemUrl(mOut[1]) = "b"
  /\ mOut[2].open /\ ~mOut[2].saved /\ ItemUrl(mOut[2]) = "c"
  /\ ~mOut[3].open /\ mOut[3].saved /\ ItemUrl(mOut[3]) = "a"

\* C2 as stated: every URL that is both in S and in O appears in exactly one
\* item of the merge, and that item is open and saved (repeated URLs allowed).
C2_ExactlyOnce ==
  mpc = "merged" =>
    \A u \in SeqUrls(mSaved) \cap SeqUrls(mOpen) :
      /\ Cardinality(WithUrl(mOut, u)) = 1
      /\ \A i \in WithUrl(mOut, u) : mOut[i].open /\ mOut[i].saved

\* C2 amended: every URL that is both in S and in O appears in exactly as many
\* items of the merge as O has items with that URL (one when O does not repeat
\* it), and each of them is open and saved; S may repeat URLs.
C2_OncePerOpenTab ==
  mpc = "merged" =>
    \A u \in SeqUrls(mSaved) \cap SeqUrls(mOpen) :
      /\ Cardinality(WithUrl(mOut, u)) = Cardinality(WithUrl(mOpen, u))
      /\ \A i \in WithUrl(mOut, u) : mOut[i].open /\ mOut[i].saved

\* a URL saved twice and open once: a single merged item
C2_Witness ==
  /\ mpc = "merged"
  /\ Len(mSaved) = 2 /\ ItemUrl(mSaved[1]) = "a" /\ ItemUrl(mSaved[2]) = "a"
  /\ Cardinality(WithUrl(mOpen, "a")) = 1
  /\ Cardinality(WithUrl(mOut, "a")) = 1

---------------------------------------------------------------------------
(* Properties of the lifecycle operations, checked under Spec.  In a state  *)
(* with pc = "returned", tabWindow is the argument of the operation op and   *)
(* ret is what it returned.                                                  *)

Returned(name) == pc = "returned" /\ op.name = name

Items(w) == w.tabItems

ItemIdx(w) == 1..Len(w.tabItems)

\* the list without its element at position e
WithoutAt(list, e) == SubSeq(list, 1, e - 1) \o SubSeq(list, e + 1, Len(list))

\* the live tabs a window shows: one per open item, in order
LiveTabsOf(w) ==
  LET open == OpenItems(w)
  IN [i \in 1..Len(open) |->
        [id |-> open[i].openState.openTabId, index |-> i - 1,
         url |-> open[i].openState.url, title |-> open[i].openState.title,
         active |-> open[i].openState.active, pinned |-> open[i].openState.pinned,
         audible |-> open[i].openState.audible,
         favIconUrl |-> open[i].openState.favIconUrl]]

LiveWindowOf(w) ==
  [id |-> w.openWindowId, type |-> w.windowType,
   width |-> w.width, height |-> w.height, tabs |-> LiveTabsOf(w)]

\* order and active flags of the open items
OpenView(w) ==
  LET open == OpenItems(w)
  IN [i \in 1..Len(open) |->
        <<open[i].openState.openTabId, open[i].openState.url,
          open[i].openState.active>>]

ActiveIdx(w) == {i \in ItemIdx(w) : Items(w)[i].open /\ Items(w)[i].openState.active}

\* C3: closing an open window with a snapshot and merging its live tabs back
\* in with updateWindow reproduces the order and the active flags of its
\* open items.
C3_RoundTrip ==
  (Returned("removeOpenWindowState") /\ op.snapshot /\ tabWindow.open) =>
    OpenView(updateWindow(ret, LiveWindowOf(tabWindow))) = OpenView(tabWindow)

\* a window with two open tabs, the second one active, one of them bookmarked,
\* and a closed bookmark, has been closed with a snapshot
C3_Witness ==
  /\ Returned("removeOpenWindowState") /\ op.snapshot /\ tabWindow.open
  /\ Len(OpenItems(tabWindow)) = 2
  /\ OpenItems(tabWindow)[2].openState.active
  /\ \E i \in ItemIdx(tabWindow) : Items(tabWindow)[i].open /\ Items(tabWindow)[i].saved
  /\ \E i \in ItemIdx(tabWindow) : ~Items(tabWindow)[i].open
  /\ ret.snapshot /\ ~ret.open

C5_Idempotent ==
  Returned("setActiveTab") => setActiveTab(ret, op.tabId) = ret

\* setActiveTab has changed the window
C5_Witness ==
  /\ Returned("setActiveTab") /\ findChromeTabId(tabWindow, op.tabId) # 0
  /\ ret # tabWindow
  /\ setActiveTab(ret, op.tabId) = ret

\* C6: closeTab on an item that is open and saved puts its saved-only form at
\* the same index and changes nothing else; on an open-only item it removes
\* the item and keeps the others in order.
C6_CloseTab ==
  (Returned("closeTab") /\ findChromeTabId(tabWindow, op.tabId) # 0) =>
    LET e == findChromeTabId(tabWindow, op.tabId)
        ti == Items(tabWindow)[e]
    IN /\ [ret EXCEPT !.tabItems = <<>>] = [tabWindow EXCEPT !.tabItems = <<>>]
       /\ IF ti.saved
          THEN /\ Len(Items(ret)) = Len(Items(tabWindow))
               /\ Items(ret)[e] = [saved |-> TRUE, savedState |-> ti.savedState,
                                   open |-> FALSE, openState |-> Null]
               /\ \A i \in ItemIdx(tabWindow) \ {e} : Items(ret)[i] = Items(tabWindow)[i]
          ELSE /\ Len(Items(ret)) = Len(Items(tabWindow)) - 1
               /\ Items(ret) = WithoutAt(Items(tabWindow), e)

\* a tab that is open and saved, not the first item, has been closed
C6_Witness ==
  /\ Returned("closeTab")
  /\ LET e == findChromeTabId(tabWindow, op.tabId)
     IN /\ e > 1
        /\ Items(tabWindow)[e].saved
        /\ ~Items(ret)[e].open /\ Items(ret)[e].saved
        /\ Len(Items(ret)) = Len(Items(tabWindow))

\* the item that updateTabItem is applied to (position 0 when there is none)
C7_Entry == findChromeTabId(tabWindow, op.tabId)

\* updateTabItem(w, tabId, {url: new}) on an item that is open and merged with
\* a saved entry for its URL, new being the URL of no saved item of w
C7_Pre ==
  /\ Returned("updateTabItem")
  /\ C7_Entry # 0
  /\ DOMAIN op.changeInfo = {"url"}
  /\ LET ti == Items(tabWindow)[C7_Entry]
     IN /\ ti.saved
        /\ ti.savedState.url = ti.openState.url
        /\ \A i \in ItemIdx(tabWindow) :
             Items(tabWindow)[i].saved => Items(tabWindow)[i].savedState.url # op.changeInfo.url

\* the item is split and no other saved or open state is lost
C7_Split ==
  LET ti == Items(tabWindow)[C7_Entry]
      hits == {i \in ItemIdx(ret) :
                 Items(ret)[i].open /\ Items(ret)[i].openState.openTabId = op.tabId}
  IN /\ Cardinality(hits) = 1
     /\ \A i \in hits : /\ ~Items(ret)[i].saved
                        /\ Items(ret)[i].savedState = Null
                        /\ Items(ret)[i].openState.url = op.changeInfo.url
     /\ \E i \in ItemIdx(ret) : /\ ~Items(ret)[i].open
                                /\ Items(ret)[i].openState = Null
                                /\ Items(ret)[i].saved
                                /\ Items(ret)[i].savedState = ti.savedState
     /\ \A j \in ItemIdx(tabWindow) \ {C7_Entry} :
          /\ Items(tabWindow)[j].open =>
               \E i \in ItemIdx(ret) :
                 Items(ret)[i].open /\ Items(ret)[i].openState = Items(tabWindow)[j].openState
          /\ Items(tabWindow)[j].saved =>
               \E i \in ItemIdx(ret) :
                 Items(ret)[i].saved /\ Items(ret)[i].savedState = Items(tabWindow)[j].savedState

\* no other item of w is open on the URL the tab leaves
C7_OldUrlNotOpenElsewhere ==
  \A j \in ItemIdx(tabWindow) \ {C7_Entry} :
    Items(tabWindow)[j].open =>
      Items(tabWindow)[j].openState.url # Items(tabWindow)[C7_Entry].openState.url

\* no two items of w carry saved states with the same URL
C7_SavedUrlsDistinct ==
  \A i, j \in ItemIdx(tabWindow) :
    (i # j /\ Items(tabWindow)[i].saved /\ Items(tabWindow)[j].saved) =>
      Items(tabWindow)[i].savedState.url # Items(tabWindow)[j].savedState.url

C8_FailedLookupNoOp ==
  /\ (/\ pc = "returned"
      /\ op.name \in {"closeTab", "setActiveTab", "updateTabItem"}
      /\ findChromeTabId(tabWindow, op.tabId) = 0)
       => (ret = tabWindow /\ ~raised)
  /\ (/\ Returned("saveTab")
      /\ op.tabItem.open /\ op.tabItem.openState # Null
      /\ findChromeTabId(tabWindow, op.tabItem.openState.openTabId) = 0)
       => (ret = tabWindow /\ ~raised)
  /\ (/\ Returned("unsaveTab")
      /\ op.tabItem.saved /\ op.tabItem.savedState # Null
      /\ findChromeBookmarkId(tabWindow, op.tabItem.savedState.bookmarkId) = 0)
       => (ret = tabWindow /\ ~raised)

\* closeTab with an unknown tab id on a window that has open items
C8_Witness ==
  /\ Returned("closeTab")
  /\ findChromeTabId(tabWindow, op.tabId) = 0
  /\ OpenItems(tabWindow) # <<>>
  /\ ret = tabWindow /\ ~raised

ItemWellFormed(ti) ==
  /\ ti.saved \/ ti.open
  /\ (ti.savedState # Null) <=> ti.saved
  /\ (ti.openState # Null) <=> ti.open

\* C9: every item of every window reached has at least one of saved/open
\* true, a saved state iff it is saved and an open state iff it is open.
C9_ItemInvariant ==
  /\ \A i \in ItemIdx(tabWindow) : ItemWellFormed(Items(tabWindow)[i])
  /\ \A i \in ItemIdx(ret) : ItemWellFormed(Items(ret)[i])

\* unsaveTab on a closed saved item has dropped it from a window with two items
C9_Witness ==
  /\ Returned("unsaveTab") /\ ~raised
  /\ Len(Items(tabWindow)) = 2
  /\ Len(Items(ret)) = 1
  /\ \A i \in ItemIdx(ret) : ItemWellFormed(Items(ret)[i])

IdKeepingOps ==
  {"removeOpenWindowState", "updateWindow", "createTab", "closeTab",
   "setActiveTab", "updateTabItem"}

\* C10: a saved window has the same id, derived from savedFolderId, before
\* and after removeOpenWindowState, updateWindow, createTab, closeTab,
\* setActiveTab and updateTabItem.
C10_SavedIdStable ==
  (pc = "returned" /\ op.name \in IdKeepingOps /\ tabWindow.saved) =>
    /\ ret.saved
    /\ TabWindowId(ret) = TabWindowId(tabWindow)
    /\ TabWindowId(ret) = "_saved" \o tabWindow.savedFolderId

\* a window that is saved and open has been closed
C10_Witness ==
  /\ Returned("removeOpenWindowState")
  /\ tabWindow.saved /\ tabWindow.open /\ ~ret.open
  /\ TabWindowId(ret) = TabWindowId(tabWindow)

InFourStates(w) ==
  \/ w.open /\ ~w.saved /\ ~w.snapshot
  \/ w.open /\ w.saved /\ ~w.snapshot
  \/ ~w.open /\ w.saved /\ ~w.snapshot
  \/ ~w.open /\ w.saved /\ w.snapshot

NeitherOpenNorSaved(w) == ~w.open /\ ~w.saved

C12_NoOpWhenActive ==
  (/\ Returned("setActiveTab")
   /\ findChromeTabId(tabWindow, op.tabId) # 0
   /\ Items(tabWindow)[findChromeTabId(tabWindow, op.tabId)].openState.active)
    => ret = tabWindow

\* setActiveTab on an active tab has cleared the active flag of another item
C12_Witness ==
  /\ Returned("setActiveTab")
  /\ findChromeTabId(tabWindow, op.tabId) # 0
  /\ Items(tabWindow)[findChromeTabId(tabWindow, op.tabId)].openState.active
  /\ Cardinality(ActiveIdx(tabWindow)) = 2
  /\ Cardinality(ActiveIdx(ret)) = 1

\* position of the item handed to updateTabBookmark, -1 when it is no element
C13_Index == indexOf(Items(tabWindow), op.tabItem)

\* the window with the changed fields applied to the saved state of the item
C13_Patched ==
  [tabWindow EXCEPT
     !.tabItems[C13_Index + 1] =
        [op.tabItem EXCEPT !.savedState = ApplyChange(op.tabItem.savedState,
                                                      op.changeInfo)]]

\* C13 as stated: updateTabBookmark for a saved item present in w at any
\* index applies the changed title/url to its saved state, in place when the
\* change has no url, followed by a re-merge of the window when it has.
C13_BookmarkChangeApplied ==
  (Returned("updateTabBookmark") /\ C13_Index >= 0 /\ op.tabItem.saved) =>
    IF "url" \in DOMAIN op.changeInfo
    THEN ret = mergeTabWindowTabItems(C13_Patched, Null, Null)
    ELSE ret = C13_Patched

\* a title change for the item at index 0 has been dropped
C13_Witness ==
  /\ Returned("updateTabBookmark") /\ C13_Index = 0 /\ op.tabItem.saved
  /\ "title" \in DOMAIN op.changeInfo
  /\ op.changeInfo.title # op.tabItem.savedState.title
  /\ ret = tabWindow

\* C14 as stated: updateTabBookmark with an item that is no element of
\* w.tabItems returns w unmodified.
C14_NotFoundNoOp ==
  (Returned("updateTabBookmark") /\ C13_Index = -1) => ret = tabWindow

\* updateTabBookmark with an unknown item has replaced the last item of w
C14_Witness ==
  /\ Returned("updateTabBookmark") /\ C13_Index = -1
  /\ Len(Items(tabWindow)) = 2
  /\ "title" \in DOMAIN op.changeInfo
  /\ Len(Items(ret)) = 2
  /\ Items(ret)[1] = Items(tabWindow)[1]
  /\ Items(ret)[2] # Items(tabWindow)[2]
  /\ Items(ret)[2].savedState.bookmarkId = op.tabItem.savedState.bookmarkId

\* position of the item handed to saveTab (0 when its tab id is not in w)
C15_Entry == findChromeTabId(tabWindow, op.tabItem.openState.openTabId)

\* C15 as stated: saveTab for an item whose tab id is in w keeps the length
\* and every other item, and makes the item at the same index open and saved
\* with the saved state of the bookmark node: bookmarkId = node.id (found by
\* findChromeBookmarkId), bookmarkIndex = node.index, title/url of the node.
C15_SavedFromNode ==
  (Returned("saveTab") /\ ~raised /\ C15_Entry # 0) =>
    /\ Len(Items(ret)) = Len(Items(tabWindow))
    /\ \A i \in ItemIdx(tabWindow) \ {C15_Entry} : Items(ret)[i] = Items(tabWindow)[i]
    /\ Items(ret)[C15_Entry].open /\ Items(ret)[C15_Entry].saved
    /\ Items(ret)[C15_Entry].openState = Items(tabWindow)[C15_Entry].openState
    /\ Items(ret)[C15_Entry].savedState.bookmarkId = op.tabNode.id
    /\ Items(ret)[C15_Entry].savedState.bookmarkIndex = op.tabNode.index
    /\ Items(ret)[C15_Entry].savedState.title = op.tabNode.title
    /\ Items(ret)[C15_Entry].savedState.url = op.tabNode.url
    /\ findChromeBookmarkId(ret, op.tabNode.id) = C15_Entry

\* saveTab has attached a saved state that does not carry the node's id
C15_Witness ==
  /\ Returned("saveTab") /\ ~raised /\ C15_Entry # 0
  /\ Items(ret)[C15_Entry].saved
  /\ Items(ret)[C15_Entry].savedState.url = op.tabNode.url
  /\ Items(ret)[C15_Entry].savedState.bookmarkId # op.tabNode.id
  /\ findChromeBookmarkId(ret, op.tabNode.id) = 0

\* C16 as stated: removeOpenWindowState yields snapshot=true exactly when a
\* snapshot is requested.
C16_SnapshotAsRequested ==
  Returned("removeOpenWindowState") => (ret.snapshot = op.snapshot)

\* a close without snapshot has returned pure saved state marked as snapshot
C16_Witness ==
  /\ Returned("removeOpenWindowState") /\ ~op.snapshot
  /\ tabWindow.saved /\ tabWindow.open
  /\ \A i \in ItemIdx(ret) : ~Items(ret)[i].open
  /\ ret.snapshot

\* C17: removeOpenWindowState(w, snapshot=true) keeps every item in place,
\* changing only the open-tab id of open items, which is reset; it resets
\* open, openWindowId, windowType, width and height of the window and keeps
\* saved, savedTitle and savedFolderId.
C17_SnapshotFrame ==
  (Returned("removeOpenWindowState") /\ op.snapshot) =>
    /\ Len(Items(ret)) = Len(Items(tabWindow))
    /\ \A i \in ItemIdx(tabWindow) :
         IF Items(tabWindow)[i].open
         THEN /\ Items(ret)[i] = [Items(tabWindow)[i] EXCEPT !.openState.openTabId = -1]
              /\ Items(ret)[i].open
              /\ Items(ret)[i].openState.active = Items(tabWindow)[i].openState.active
         ELSE Items(ret)[i] = Items(tabWindow)[i]
    /\ ~ret.open /\ ret.openWindowId = -1 /\ ret.windowType = ""
    /\ ret.width = 0 /\ ret.height = 0
    /\ ret.saved = tabWindow.saved
    /\ ret.savedTitle = tabWindow.savedTitle
    /\ ret.savedFolderId = tabWindow.savedFolderId

\* an open, saved window with an active tab, a tab with a live id and a
\* closed bookmark has been closed with a snapshot
C17_Witness ==
  /\ Returned("removeOpenWindowState") /\ op.snapshot
  /\ tabWindow.open /\ tabWindow.saved /\ tabWindow.windowType = "normal"
  /\ \E i \in ItemIdx(tabWindow) :
       /\ Items(tabWindow)[i].open /\ Items(tabWindow)[i].openState.active
       /\ Items(tabWindow)[i].openState.openTabId > 0
       /\ Items(ret)[i].openState.openTabId = -1
  /\ \E i \in ItemIdx(tabWindow) : ~Items(tabWindow)[i].open
  /\ ~ret.open /\ ret.windowType = "" /\ ret.saved

\* C18: removeOpenWindowState(w, snapshot=false) yields exactly the saved
\* items of w, in their order, each closed, without open state and with
\* its saved state unchanged.
C18_RevertToSaved ==
  (Returned("removeOpenWindowState") /\ ~op.snapshot) =>
    /\ Len(Items(ret)) = Len(SavedItems(tabWindow))
    /\ \A i \in ItemIdx(ret) :
         Items(ret)[i] = [saved |-> TRUE,
                          savedState |-> SavedItems(tabWindow)[i].savedState,
                          open |-> FALSE, openState |-> Null]

\* a window with an open-only item in front of a saved one has been reverted
C18_Witness ==
  /\ Returned("removeOpenWindowState") /\ ~op.snapshot
  /\ Len(Items(tabWindow)) >= 2
  /\ Items(tabWindow)[1].open /\ ~Items(tabWindow)[1].saved
  /\ \E i \in ItemIdx(tabWindow) : Items(tabWindow)[i].open /\ Items(tabWindow)[i].saved
  /\ Len(Items(ret)) < Len(Items(tabWindow))
  /\ Len(Items(ret)) >= 1

\* the saved states of the saved items of w with the given URL
SavedStatesFor(w, url) ==
  {Items(w)[i].savedState : i \in {j \in ItemIdx(w) : /\ Items(w)[j].saved
                                                       /\ Items(w)[j].savedState.url = url}}

\* the saved items of w whose URL is none of the given ones, in order
SavedNotOpen(w, openUrls) ==
  FilterSeq(SavedItems(w), LAMBDA ti : ti.savedState.url \notin openUrls)

\* item i of the result is the open item of the live tab, merged with a saved
\* state of w for the tab's URL when there is one
IsItemOfTab(ti, tab, w) ==
  /\ ti.open
  /\ ti.openState.openTabId = tab.id
  /\ ti.openState.openTabIndex = tab.index
  /\ ti.openState.url = tab.url
  /\ ti.openState.title = tab.title
  /\ ti.openState.active = tab.active
  /\ ti.openState.pinned = tab.pinned
  /\ IF SavedStatesFor(w, tab.url) = {}
     THEN ~ti.saved /\ ti.savedState = Null
     ELSE ti.saved /\ ti.savedState \in SavedStatesFor(w, tab.url)

IsClosedItemOf(ti, savedItem) ==
  ti = [saved |-> TRUE, savedState |-> savedItem.savedState,
        open |-> FALSE, openState |-> Null]

\* C19: updateWindow(w, chromeWindow) yields an open window with the id of
\* chromeWindow, no snapshot mark and no session id, whose items are one open
\* item per tab of chromeWindow, in order, each merged with the saved state
\* of w for its URL if any, followed by the saved items of w whose URL is not
\* open; nothing of w's previous open state remains.
C19_UpdateWindow ==
  Returned("updateWindow") =>
    LET tabs == op.chromeWindow.tabs
        n == Len(tabs)
        closed == SavedNotOpen(tabWindow, {tabs[i].url : i \in 1..n})
    IN /\ ret.open /\ ret.openWindowId = op.chromeWindow.id
       /\ ~ret.snapshot /\ ret.chromeSessionId = Null
       /\ Len(Items(ret)) = n + Len(closed)
       /\ \A i \in 1..n : IsItemOfTab(Items(ret)[i], tabs[i], tabWindow)
       /\ \A j \in 1..Len(closed) : IsClosedItemOf(Items(ret)[n + j], closed[j])

\* a window with an open-only item whose URL is not among the fresh tabs has
\* been updated; one fresh tab is merged with a bookmark
C19_Witness ==
  /\ Returned("updateWindow")
  /\ tabWindow.saved
  /\ \E i \in ItemIdx(tabWindow) :
       /\ Items(tabWindow)[i].open /\ ~Items(tabWindow)[i].saved
       /\ \A k \in ItemIdx(ret) :
            Items(ret)[k].open => Items(ret)[k].openState.url # Items(tabWindow)[i].openState.url
  /\ \E k \in ItemIdx(ret) : Items(ret)[k].open /\ Items(ret)[k].saved
  /\ Len(Items(ret)) < Len(Items(tabWindow))
  /\ ret.open /\ ~ret.snapshot

ClosedItems(w) == FilterSeq(w.tabItems, LAMBDA ti : ~ti.open)

\* where createTab puts the new tab among the open items (0-based)
C20_Pos == Min(op.tab.index, Len(OpenItems(tabWindow)))

\* the closed saved items of w with the URL of the new tab
C20_Matches ==
  {i \in ItemIdx(tabWindow) : /\ ~Items(tabWindow)[i].open
                              /\ Items(tabWindow)[i].saved
                              /\ Items(tabWindow)[i].savedState.url = op.tab.url}

\* what C20 says of the window createTab returns
C20_Post ==
  LET prevOpen == OpenItems(tabWindow)
      newOpen == OpenItems(ret)
      k == C20_Pos
  IN /\ Len(newOpen) = Len(prevOpen) + 1
     /\ \A i \in 1..Len(newOpen) : Items(ret)[i].open
     /\ \A i \in (Len(newOpen) + 1)..Len(Items(ret)) :
          ~Items(ret)[i].open /\ Items(ret)[i].saved
     /\ \A i \in 1..Len(prevOpen) :
          newOpen[IF i <= k THEN i ELSE i + 1].openState = prevOpen[i].openState
     /\ newOpen[k + 1].openState.openTabId = op.tab.id
     /\ newOpen[k + 1].openState.url = op.tab.url
     /\ newOpen[k + 1].openState.active = op.tab.active
     /\ ClosedItems(ret) =
          FilterSeq(ClosedItems(tabWindow), LAMBDA ti : ti.savedState.url # op.tab.url)
     /\ C20_Matches # {} =>
          /\ newOpen[k + 1].saved
          /\ \E i \in C20_Matches :
               newOpen[k + 1].savedState = Items(tabWindow)[i].savedState
          /\ Len(Items(ret)) = Len(Items(tabWindow))

\* no two items of w carry saved states with the same URL, and an open item
\* and a saved item of w have the same URL only when they are one item
MergedByUrl(w) ==
  /\ \A i, j \in ItemIdx(w) :
       (i # j /\ Items(w)[i].saved /\ Items(w)[j].saved) =>
         Items(w)[i].savedState.url # Items(w)[j].savedState.url
  /\ \A i, j \in ItemIdx(w) :
       (Items(w)[i].open /\ Items(w)[j].saved) =>
         ((Items(w)[i].openState.url = Items(w)[j].savedState.url) <=> (i = j))

C21_Entry == findChromeBookmarkId(tabWindow, op.tabItem.savedState.bookmarkId)

\* C21: unsaveTab finds the item of w by the bookmark id of the argument's
\* saved state; an open item stays at its index as an open-only item with
\* its open state, a closed one is removed; the other items are unchanged.
C21_UnsaveTab ==
  (Returned("unsaveTab") /\ ~raised /\ C21_Entry # 0) =>
    LET e == C21_Entry
        ti == Items(tabWindow)[e]
    IN /\ [ret EXCEPT !.tabItems = <<>>] = [tabWindow EXCEPT !.tabItems = <<>>]
       /\ IF ti.open
          THEN /\ Len(Items(ret)) = Len(Items(tabWindow))
               /\ Items(ret)[e] = [saved |-> FALSE, savedState |-> Null,
                                   open |-> TRUE, openState |-> ti.openState]
               /\ \A i \in ItemIdx(tabWindow) \ {e} : Items(ret)[i] = Items(tabWindow)[i]
          ELSE Items(ret) = WithoutAt(Items(tabWindow), e)

\* unsaveTab was handed a closed copy of an item that is open in w and has
\* made that item open-only, in a window with a second item
C21_Witness ==
  /\ Returned("unsaveTab") /\ ~raised /\ C21_Entry # 0
  /\ Items(tabWindow)[C21_Entry].open
  /\ ~op.tabItem.open
  /\ Len(Items(tabWindow)) >= 2
  /\ ~Items(ret)[C21_Entry].saved /\ Items(ret)[C21_Entry].open

\* C22: whenever the title getter has cached a title on the window held, it
\* is the title derived from the window's current state: savedTitle if saved,
\* else the title of the first open and active item, else of the first open
\* item, else the empty string.
C22_TitleNotStale ==
  titleCache.set => titleCache.value =
    (IF tabWindow.saved THEN tabWindow.savedTitle
     ELSE IF ActiveIdx(tabWindow) # {}
          THEN ItemTitle(Items(tabWindow)[Least(ActiveIdx(tabWindow))])
     ELSE IF OpenItems(tabWindow) # <<>> THEN ItemTitle(OpenItems(tabWindow)[1])
     ELSE "")

\* the title of a saved window has been read after updateSavedTitle gave it
\* a new saved title
C22_Witness ==
  /\ pc = "idle" /\ steps = 1
  /\ tabWindow.saved /\ tabWindow.savedTitle = "W2"
  /\ titleCache.set
  /\ titleCache.value = "W2"

\* C23: updateTabItem with a changeInfo without url changes only the fields
\* of the target's open state that changeInfo names; the item stays at its
\* index with its saved state, the other items and the window fields are
\* unchanged, and the window is returned as it is when changeInfo names no
\* open-state field.
C23_PatchInPlace ==
  (/\ Returned("updateTabItem")
   /\ findChromeTabId(tabWindow, op.tabId) # 0
   /\ "url" \notin DOMAIN op.changeInfo) =>
    LET e == findChromeTabId(tabWindow, op.tabId)
        old == Items(tabWindow)[e]
        new == Items(ret)[e]
    IN /\ [ret EXCEPT !.tabItems = <<>>] = [tabWindow EXCEPT !.tabItems = <<>>]
       /\ Len(Items(ret)) = Len(Items(tabWindow))
       /\ \A i \in ItemIdx(tabWindow) \ {e} : Items(ret)[i] = Items(tabWindow)[i]
       /\ new.open /\ new.saved = old.saved /\ new.savedState = old.savedState
       /\ DOMAIN new.openState = DOMAIN old.openState
       /\ \A k \in DOMAIN old.openState :
            new.openState[k] = IF k \in DOMAIN op.changeInfo THEN op.changeInfo[k]
                               ELSE old.openState[k]
       /\ (DOMAIN op.changeInfo \cap DOMAIN old.openState = {}) => ret = tabWindow

\* title and pinned of a saved tab, not the first item, have been changed by a
\* changeInfo that also names a field the open state does not have
C23_Witness ==
  /\ Returned("updateTabItem")
  /\ findChromeTabId(tabWindow, op.tabId) > 1
  /\ DOMAIN op.changeInfo = {"title", "pinned", "status"}
  /\ LET e == findChromeTabId(tabWindow, op.tabId)
     IN /\ Items(tabWindow)[e].saved
        /\ Items(ret)[e].openState.title = "t-new"
        /\ Items(tabWindow)[e].openState.title # "t-new"
        /\ Items(ret)[e].openState.pinned

\* the open items of w on the URL of the bookmark handed to createBookmark
C24_Hits ==
  {i \in 1..Len(OpenItems(tabWindow)) : OpenItems(tabWindow)[i].openState.url = op.bm.url}

\* the saved state of the bookmark handed to createBookmark
C24_IsStateOfBm(savedState) ==
  /\ savedState # Null
  /\ savedState.bookmarkId = op.bm.id
  /\ savedState.bookmarkIndex = op.bm.index
  /\ savedState.url = op.bm.url
  /\ savedState.title = op.bm.title

\* what C24 says of the window createBookmark returns
C24_Post ==
  LET prevOpen == OpenItems(tabWindow)
      newOpen == OpenItems(ret)
  IN /\ Len(newOpen) = Len(prevOpen)
     /\ \A i \in 1..Len(prevOpen) :
          /\ newOpen[i].openState = prevOpen[i].openState
          /\ i \notin C24_Hits => newOpen[i] = prevOpen[i]
          /\ i \in C24_Hits => newOpen[i].saved /\ C24_IsStateOfBm(newOpen[i].savedState)
     /\ IF C24_Hits # {}
        THEN Len(Items(ret)) = Len(Items(tabWindow))
        ELSE /\ Len(ClosedItems(ret)) = Len(ClosedItems(tabWindow)) + 1
             /\ SubSeq(ClosedItems(ret), 1, Len(ClosedItems(tabWindow)))
                  = ClosedItems(tabWindow)
             /\ LET last == ClosedItems(ret)[Len(ClosedItems(ret))]
                IN /\ last.saved /\ C24_IsStateOfBm(last.savedState)
                   /\ last.openState = Null

C25_AtMostOneActive ==
  /\ Cardinality(ActiveIdx(tabWindow)) <= 1
  /\ Cardinality(ActiveIdx(ret)) <= 1

\* createTab of an active tab has left the previously active item active
C25_Witness ==
  /\ Returned("createTab") /\ op.tab.active
  /\ Cardinality(ActiveIdx(tabWindow)) = 1
  /\ Cardinality(ActiveIdx(ret)) = 2
  /\ \A i \in ActiveIdx(tabWindow) :
       \E j \in ActiveIdx(ret) : Items(ret)[j].openState.openTabId
                                   = Items(tabWindow)[i].openState.openTabId

TabOnlyEvents ==
  {"createTab", "closeTab", "setActiveTab", "updateTabItem", "updateWindow",
   "removeOpenWindowState"}

\* two saved states of w have one URL and different bookmark ids
C26_SharedUrl(w) ==
  \E i, j \in ItemIdx(w) :
    /\ Items(w)[i].saved /\ Items(w)[j].saved
    /\ Items(w)[i].savedState.url = Items(w)[j].savedState.url
    /\ Items(w)[i].savedState.bookmarkId # Items(w)[j].savedState.bookmarkId

\* C26 as stated: a tab-only event (createTab, closeTab, setActiveTab,
\* updateTabItem, updateWindow, removeOpenWindowState) leaves the set of
\* bookmark ids of the window's saved states unchanged, also when two saved
\* items share a URL.
C26_BookmarksKept ==
  (pc = "returned" /\ op.name \in TabOnlyEvents) =>
    SavedBookmarkIds(ret) = SavedBookmarkIds(tabWindow)

\* without two saved states of one URL and different bookmark ids the
\* bookmark ids are kept by every tab-only event
BookmarksKeptDistinct ==
  (pc = "returned" /\ op.name \in TabOnlyEvents /\ ~C26_SharedUrl(tabWindow)) =>
    SavedBookmarkIds(ret) = SavedBookmarkIds(tabWindow)

\* a window with two bookmarks of one URL is opened on a tab of that URL and
\* one of the two bookmark ids is gone
C26_Witness ==
  /\ Returned("updateWindow")
  /\ C26_SharedUrl(tabWindow)
  /\ Len(op.chromeWindow.tabs) = 1
  /\ Cardinality(SavedBookmarkIds(tabWindow)) = 2
  /\ Cardinality(SavedBookmarkIds(ret)) = 1
  /\ SavedBookmarkIds(ret) \subseteq SavedBookmarkIds(tabWindow)

TabIdEvents == {"closeTab", "setActiveTab", "updateTabItem"}

\* no item of w carries a non-negative tab id
NoLiveId(w) ==
  \A i \in ItemIdx(w) : Items(w)[i].open => Items(w)[i].openState.openTabId < 0

\* C27 as stated: after removeOpenWindowState and until the next updateWindow
\* (every state of SpecClosed), each closeTab, setActiveTab and updateTabItem
\* carrying a non-negative tab id leaves the window unchanged.
C27_ClosedIgnoresTabEvents ==
  (pc = "returned" /\ op.name \in TabIdEvents /\ op.tabId >= 0) =>
    ret = tabWindow

\* C27: removeOpenWindowState leaves no item with a non-negative tab id; this
\* lasts until the next updateWindow, createTab or createSavedTab; and while it
\* lasts each closeTab, setActiveTab and updateTabItem carrying a non-negative
\* tab id leaves the window unchanged.
C27_ClosedUntilTabCreated ==
  /\ (pc = "idle" /\ steps = 0) => NoLiveId(tabWindow)
  /\ Returned("removeOpenWindowState") => NoLiveId(ret)
  /\ (/\ pc = "returned"
      /\ op.name \notin {"updateWindow", "createTab", "createSavedTab"}
      /\ NoLiveId(tabWindow)) => NoLiveId(ret)
  /\ (/\ pc = "returned" /\ op.name \in TabIdEvents /\ op.tabId >= 0
      /\ NoLiveId(tabWindow)) => ret = tabWindow

\* a closed window that kept its tabs as a snapshot gets a closeTab for the id
\* its first tab had
C27_Witness ==
  /\ Returned("closeTab")
  /\ ~tabWindow.open /\ tabWindow.snapshot
  /\ Len(OpenItems(tabWindow)) >= 1
  /\ NoLiveId(tabWindow)
  /\ op.tabId = 1
  /\ ret = tabWindow

=============================================================================
